---- MODULE Spec2Model ----
(***************************************************************************)
(* Mnemy save-synchronisation engine: the Sync Orchestrator                *)
(* (modules/ui_controllers/main_controller.py), the Remote Sync Client     *)
(* (modules/API_client.py), the metadata store (modules/sqls.py), the      *)
(* Process Watcher (modules/processes_watcher.py), the manual sync button  *)
(* (UI/components/games_dashboard.py) and the archive streamer             *)
(* (modules/file_manager.py).                                              *)
(***************************************************************************)
EXTENDS Integers, Sequences, FiniteSets, TLC

\* ------------------------------------------------------------------ bounds
NGames == 2          \* rows of table "games" the watcher is followed over
MaxClock == 1        \* largest reading of datetime.now()
MaxWorkers == 1      \* AsyncRunner worker threads alive at the same time
MaxNameLen == 5      \* longest process name compared by the watcher
MaxRelLen == 3       \* longest path below the base directory that is archived
MaxFiles == 2        \* longest file list handed to the archive producer
PipeCap == 1         \* archive members the pipe holds before a write blocks

WatcherThread == 0   \* the daemon thread started by ProcessWatcher.run
Workers == 1..MaxWorkers
Threads == {WatcherThread} \cup Workers

\* ------------------------------------------------------------ python values
None == <<>>                 \* a nullable datetime: <<>> is None, <<t>> is t
Date(t) == <<t>>

\* ------------------------------------------------------------- characters
Letter == <<"a", "b", "c", "d">>
Capital == <<"A", "B", "C", "D">>
\* str.lower() on one character
LowerChar(c) ==
    CASE c = "A" -> "a" [] c = "B" -> "b" [] c = "C" -> "c" [] c = "D" -> "d"
      [] c = "E" -> "e" [] c = "G" -> "g" [] c = "X" -> "x" [] OTHER -> c

\* str.lower()
lower(s) == [i \in 1..Len(s) |-> LowerChar(s[i])]

\* s.endswith(suf)
endswith(s, suf) ==
    /\ Len(s) >= Len(suf)
    /\ SubSeq(s, Len(s) - Len(suf) + 1, Len(s)) = suf

\* s[:-n] (the empty string when n >= len(s))
DropLast(s, n) == IF Len(s) <= n THEN <<>> ELSE SubSeq(s, 1, Len(s) - n)

DotExe == <<".", "e", "x", "e">>
Dot == <<".">>

\* a plausible slip: the suffix test without lower()
normalize_name_nolower(name) ==
    IF endswith(name, DotExe) THEN DropLast(name, 4)
    ELSE IF endswith(name, Dot) THEN DropLast(name, 1)
    ELSE name

\* ProcessWatcher._normalize_name
normalize_name(name) ==
    IF endswith(lower(name), DotExe) THEN DropLast(name, 4)
    ELSE IF endswith(lower(name), Dot) THEN DropLast(name, 1)
    ELSE name

\* ProcessWatcher._check_process: is a process of that name in the list
check_process(process_name, process_list) ==
    LET target_name == lower(normalize_name(process_name))
    IN  \E proc \in process_list : target_name = lower(normalize_name(proc))

RECURSIVE LastSlash(_, _)
LastSlash(s, i) == IF i = 0 THEN 0 ELSE IF s[i] = "/" THEN i ELSE LastSlash(s, i - 1)

\* path.split("/")[-1]
Basename(path) == SubSeq(path, LastSlash(path, Len(path)) + 1, Len(path))

\* Game.game_path of game g as registered: "/<letter>.exe"
GamePath(g) == <<"/", Letter[g]>> \o DotExe

\* the name under which the operating system lists game g's process
ProcName(g) == <<Capital[g]>>

\* ------------------------------------------------------------------- state
VARIABLES
    last_sync_date,  \* Game.last_sync_date of every row (None or a datetime)
    clock,           \* what datetime.now() returns; it never goes back
    card,            \* per game card: kwargs["last_sync_date"] is None
    saves_dir,       \* the game's saves directory: "missing", "empty" or "files"
    run,             \* per thread: the sync coroutine it is executing
    pw,              \* ProcessWatcher._monitor_processes: its position and locals
    mt,              \* one call of ProcessWatcher._check_process
    ar,              \* one run of create_archive_chunk_generator and its extraction
    dl,              \* one call of APIClient.download_files
    cl,              \* one APIClient object, settings.json, the keyring, its calls
    hg,              \* one diff: hash_generator, the server's answer, the upload list
    wb,              \* the watcher's copy of a game's row against the stored row
    cd,              \* downloads running on two threads and the temporary file
    ug               \* the games table and one call of sqls.update_game

vars == <<last_sync_date, clock, card, saves_dir, run, pw, mt, ar, dl, cl, hg, wb, cd, ug>>

\* the synchronisation engine: store, clock, cards, directories, threads
engine == <<last_sync_date, clock, card, saves_dir, run, pw>>

\* the harnesses of single calls, untouched by the synchronisation engine
pure == <<mt, ar, dl, cl, hg, wb, cd, ug>>

\* what a harness leaves alone: everything but its own variable
except_mt == <<engine, ar, dl, cl, hg, wb, cd, ug>>
except_ar == <<engine, mt, dl, cl, hg, wb, cd, ug>>
except_dl == <<engine, mt, ar, cl, hg, wb, cd, ug>>
except_cl == <<engine, mt, ar, dl, hg, wb, cd, ug>>
except_hg == <<engine, mt, ar, dl, cl, wb, cd, ug>>
except_wb == <<engine, mt, ar, dl, cl, hg, cd, ug>>
except_cd == <<engine, mt, ar, dl, cl, hg, wb, ug>>
except_ug == <<engine, mt, ar, dl, cl, hg, wb, cd>>

\* the ids of the rows of table "games"
Games == DOMAIN last_sync_date

IdleRun ==
    [pc |-> "idle", game |-> 0, entry |-> "none",
     files_data |-> [type |-> "none", val |-> <<>>],
     status |-> "unset", now |-> None, reqs |-> {}, first |-> FALSE,
     diff |-> "none", stamped |-> FALSE, choice |-> "none", outcome |-> "none"]

\* a coroutine object just created for game g: nothing of it has executed yet
NewRun(g, entry, choice) ==
    [IdleRun EXCEPT !.pc = IF entry = "sync" THEN "lookup" ELSE "wipe",
                    !.game = g, !.entry = entry, !.choice = choice,
                    !.first = (last_sync_date[g] = None), !.outcome = "running"]

\* an exception leaves the coroutine
Raised(r, exc) == [r EXCEPT !.pc = "done", !.outcome = exc]

\* ------------------------------------------------------ Remote Sync Client
\* APIClient.load_host: the value it returns for a state of settings.json
load_host(config_file) ==
    CASE config_file = "host" -> "url"        \* config.get("host", "")
      [] config_file = "host2" -> "url2"      \* the same, another address
      [] config_file = "no_host" -> ""
      [] config_file = "absent" -> "True"     \* return True
      [] OTHER -> "False"                     \* unreadable: return False

\* Python truth of the host value (not self.host)
Truthy(host) == host \in {"url", "url2", "True"}

\* host values that make a URL requests and aiohttp accept
Urls == {"url", "url2"}

\* what settings.json and the keyring can hold when a call reads them (the
\* settings window rewrites both at any time)
Settings == [config_file : {"host", "no_host", "absent", "unreadable"}, token : BOOLEAN]

\* the preamble of APIClient._make_request: "request" when it gets as far as
\* requests.request with a well-formed URL, else the exception it raises
make_request_preamble(settings) ==
    LET host == load_host(settings.config_file)
    IN  IF ~Truthy(host) THEN "ValueError_host"
        ELSE IF ~settings.token THEN "ValueError_token"
        ELSE IF host \notin Urls THEN "MissingSchema"
        ELSE "request"

\* the relative paths hash_generator finds below the saves directory
LocalKeys(g) == IF saves_dir[g] = "files" THEN {<<"/", "s">>} ELSE {}

EmptyList == [type |-> "list", val |-> <<>>]

\* APIClient.check_files: every (value returned, request issued, what the diff
\* step came to) it can produce for game g
check_files(g, settings) ==
    IF saves_dir[g] = "missing"
    THEN {[ret |-> EmptyList, req |-> FALSE, diff |-> "failed"]}
    ELSE IF make_request_preamble(settings) # "request"
    THEN {[ret |-> EmptyList, req |-> FALSE, diff |-> "failed"]}
    ELSE {[ret |-> EmptyList, req |-> TRUE, diff |-> "failed"]}   \* neterr, 4xx/5xx, bad JSON
         \cup {[ret |-> [type |-> "int", val |-> <<"307">>], req |-> TRUE, diff |-> "redirect"]}
         \cup {[ret |-> [type |-> "list", val |-> fs], req |-> TRUE, diff |-> "ok"] :
                 fs \in {<<>>} \cup {<<k>> : k \in LocalKeys(g)}}

\* what the server, or the network, can answer to POST /files/upload_data
UploadStatuses == {"200", "500", "None"}

\* APIClient.upload_files_streaming: every (status returned, request issued);
\* base_dir is the state of the folder, host is self.host as the client holds
\* it, token what get_token returns
upload_files_streaming(base_dir, files_paths, host, token) ==
    IF base_dir = "missing" THEN {[ret |-> "None", req |-> FALSE]}
    ELSE IF files_paths.type = "none" THEN {[ret |-> "200", req |-> FALSE]}
    ELSE IF ~token THEN {[ret |-> "None", req |-> FALSE]}
    ELSE IF host \notin Urls THEN {[ret |-> "None", req |-> FALSE]}
    ELSE {[ret |-> st, req |-> TRUE] : st \in UploadStatuses}

\* the parameters download_files declares after self, and the arguments
\* download_saves_action passes
DownloadFilesParams == <<"game_name", "path_to_saves", "delete_saves_folder">>
DownloadSavesActionArgs == <<"game_name", "saves_path">>

\* APIClient.download_files as download_saves_action calls it
download_files(g, args, settings) ==
    IF Len(args) # Len(DownloadFilesParams)
    THEN {[ret |-> "TypeError", req |-> FALSE]}
    ELSE IF make_request_preamble(settings) # "request" THEN {[ret |-> "None", req |-> FALSE]}
    ELSE {[ret |-> st, req |-> TRUE] : st \in {"200", "404", "None"}}

\* -------------------------------------------------------- Sync Orchestrator
\* a slip that lets None through the conversion
get_utc_time_passes_none(date) == [exc |-> "none", value |-> date]

\* main_controller.get_utc_time: pytz's localize reads date.tzinfo
get_utc_time(date) ==
    IF date = None THEN [exc |-> "AttributeError", value |-> None]
    ELSE [exc |-> "none", value |-> date]

\* files_data != "redirect" as Python evaluates it
NotRedirect(files_data) == ~(files_data.type = "str" /\ files_data.val = <<"redirect">>)

Step(t, r) == run' = [run EXCEPT ![t] = r]

\* sync_saves_action, lines 24-25
SyncLookup(t) ==
    /\ run[t].pc = "lookup"
    /\ LET r == run[t]
           utc == get_utc_time(last_sync_date[r.game])
       IN  IF utc.exc # "none" THEN Step(t, Raised(r, utc.exc))
           ELSE Step(t, [r EXCEPT !.pc = "check"])
    /\ UNCHANGED <<last_sync_date, clock, card, saves_dir, pw, pure>>

\* sync_saves_action, lines 27-28 and 33-34
CheckFiles(t) ==
    /\ run[t].pc = "check"
    /\ \E settings \in Settings : \E res \in check_files(run[t].game, settings) :
         LET r == [run[t] EXCEPT !.files_data = res.ret, !.diff = res.diff]
         IN  IF NotRedirect(res.ret) THEN Step(t, [r EXCEPT !.pc = "upload"])
             ELSE Step(t, [r EXCEPT !.pc = "wipe", !.entry = "download"])
    /\ UNCHANGED <<last_sync_date, clock, card, saves_dir, pw, pure>>

\* sync_saves_action, line 30
Upload(t) ==
    /\ run[t].pc = "upload"
    /\ \E settings \in Settings :
       \* self.host is what the latest _make_request on the client loaded
       \E res \in upload_files_streaming(saves_dir[run[t].game], run[t].files_data,
                                         load_host(settings.config_file), settings.token) :
         Step(t, [run[t] EXCEPT !.pc = "now", !.status = res.ret,
                                !.files_data = IdleRun.files_data,  \* not read again
                                !.reqs = IF res.req THEN @ \cup {"upload"} ELSE @])
    /\ UNCHANGED <<last_sync_date, clock, card, saves_dir, pw, pure>>

\* download_saves_action, lines 37-38
DownloadWipe(t) ==
    /\ run[t].pc = "wipe"
    /\ IF saves_dir[run[t].game] = "missing"
       THEN Step(t, Raised(run[t], "FileNotFoundError")) /\ UNCHANGED saves_dir
       ELSE /\ saves_dir' = [saves_dir EXCEPT ![run[t].game] = "empty"]
            /\ Step(t, [run[t] EXCEPT !.pc = "download"])
    /\ UNCHANGED <<last_sync_date, clock, card, pw, pure>>

\* download_saves_action, line 39
DownloadFiles(t) ==
    /\ run[t].pc = "download"
    /\ \E settings \in Settings :
       \E res \in download_files(run[t].game, DownloadSavesActionArgs, settings) :
         IF res.ret = "TypeError"
         THEN Step(t, Raised(run[t], res.ret)) /\ UNCHANGED saves_dir
         ELSE /\ Step(t, [run[t] EXCEPT !.pc = "now", !.status = res.ret,
                             !.reqs = IF res.req THEN @ \cup {"download"} ELSE @])
              /\ saves_dir' = [saves_dir EXCEPT ![run[t].game] =
                                  IF res.ret = "200" THEN "files" ELSE @]
    /\ UNCHANGED <<last_sync_date, clock, card, pw, pure>>

\* lines 31 and 40: the argument datetime.datetime.now() is evaluated
ReadNow(t) ==
    /\ run[t].pc = "now"
    /\ \E time \in clock..MaxClock :
         /\ clock' = time
         /\ Step(t, [run[t] EXCEPT !.pc = "write", !.now = Date(time)])
    /\ UNCHANGED <<last_sync_date, card, saves_dir, pw, pure>>

\* sqls.update_sync_time, then lines 32 and 41: return the status
UpdateSyncTime(t) ==
    /\ run[t].pc = "write"
    /\ last_sync_date' = [last_sync_date EXCEPT ![run[t].game] = run[t].now]
    /\ Step(t, [run[t] EXCEPT !.pc = "done", !.now = None, !.stamped = TRUE,
                                   !.outcome = "returned"])
    /\ UNCHANGED <<clock, card, saves_dir, pw, pure>>

\* ------------------------------------------------------- manual sync button
\* ClickableFrame.on_sync on the card of game g; the AsyncRunner it creates
\* runs the chosen coroutine on worker t
OnSync(t, g) ==
    /\ run[t].pc = "idle"
    /\ IF saves_dir[g] = "missing"
       THEN UNCHANGED run                       \* "cannot sync" dialog
       ELSE IF card[g]
       THEN \E user_choice \in {"download", "upload", "cancel"} :
              CASE user_choice = "download" -> Step(t, NewRun(g, "download", "download"))
                [] user_choice = "upload" -> Step(t, NewRun(g, "sync", "upload"))
                [] OTHER -> UNCHANGED run
       ELSE Step(t, NewRun(g, "sync", "none"))
    /\ UNCHANGED <<last_sync_date, clock, card, saves_dir, pw, pure>>

\* AsyncRunner.run_in_thread after the coroutine: finished reaches
\* populate_game_cards, error reaches on_sync_error
RunnerEmit(t) ==
    /\ t \in Workers
    /\ run[t].pc = "done"
    /\ card' = IF run[t].outcome = "returned"
               THEN [g \in Games |-> last_sync_date[g] = None] ELSE card
    /\ Step(t, IdleRun)
    /\ UNCHANGED <<last_sync_date, clock, saves_dir, pw, pure>>

\* ---------------------------------------------------------- Process Watcher
\* ProcessWatcher._check_any_process_from_list: the first game, in the order of
\* games_data, whose executable is running (0: none)
check_any_process_from_list(processes) ==
    LET running == {g \in Games : check_process(Basename(GamePath(g)), processes)}
    IN  IF running = {} THEN 0
        ELSE CHOOSE g \in running : \A h \in running : g <= h

\* ProcessWatcher._get_all_processes: the names psutil lists at a poll
ProcessLists == SUBSET {ProcName(g) : g \in Games}

\* one round of _wait_for_any_process_start
WaitStartPoll ==
    /\ pw.pc = "wait_start"
    /\ \E processes \in ProcessLists :
         LET game_id == check_any_process_from_list(processes)
         IN  IF game_id = 0 THEN UNCHANGED pw     \* sleep, poll again
             ELSE pw' = [pw EXCEPT !.pc = "wait_exit", !.game_id = game_id,
                                     !.running_process = Basename(GamePath(game_id)),
                                     !.polls = <<"running">>]
    /\ UNCHANGED <<last_sync_date, clock, card, saves_dir, run, pure>>

\* one round of _wait_for_process_exit; on exit, lines 115-119 of
\* _monitor_processes: notify and invoke sync_saves_action
WaitExitPoll ==
    /\ pw.pc = "wait_exit"
    /\ \E processes \in ProcessLists :
         IF check_process(pw.running_process, processes)
         THEN UNCHANGED <<pw, run>>
         ELSE /\ pw' = [pw EXCEPT !.pc = "syncing", !.polls = Append(@, "gone")]
              /\ Step(WatcherThread, NewRun(pw.game_id, "sync", "none"))
    /\ UNCHANGED <<last_sync_date, clock, card, saves_dir, pure>>

\* asyncio.run returns or raises: lines 121-122, or the except clause that
\* lies outside the while loop
WatcherAfterSync ==
    /\ pw.pc = "syncing"
    /\ run[WatcherThread].pc = "done"
    /\ pw' = [pw EXCEPT !.pc = IF run[WatcherThread].outcome # "returned"
                               THEN "stopped" ELSE "wait_start",
                        !.polls = <<>>,
                        !.logged = run[WatcherThread].outcome # "returned"]
    /\ Step(WatcherThread, IdleRun)
    /\ UNCHANGED <<last_sync_date, clock, card, saves_dir, pure>>

\* ------------------------------------------------- process-name matching
\* bound executable names, as Game.game_path.split("/")[-1] yields them
BoundNames ==
    {<<"g", ".", "e", "x", "e">>, <<"G", ".", "E", "X", "E">>, <<"g">>, <<"g", ".">>,
     <<"g", "e">>, <<".", "e", "x", "e">>, <<"g", ".", "e", "x", "e", ".">>}

NameChars == {"g", "G", ".", "e", "X"}

RECURSIVE StringsUpTo(_)
StringsUpTo(n) ==
    IF n = 0 THEN {<<>>}
    ELSE LET shorter == StringsUpTo(n - 1)
         IN  shorter \cup {Append(w, c) : w \in {v \in shorter : Len(v) = n - 1}, c \in NameChars}

\* names psutil can report for a running process
ListedNames == StringsUpTo(MaxNameLen)

NoMatch == [bound |-> <<>>, proc |-> <<>>, found |-> "unset"]

\* the watcher looks for bound name mt.bound while mt.proc is the process listed
CheckProcess ==
    /\ mt.found = "unset"
    /\ mt' = [mt EXCEPT !.found = IF check_process(mt.bound, {mt.proc}) THEN "True" ELSE "False"]
    /\ UNCHANGED except_mt

\* ------------------------------------------------------- archive streamer
PathChars == {"a", "s"}

RECURSIVE NamesUpTo(_)
NamesUpTo(n) ==
    IF n = 0 THEN {<<>>}
    ELSE LET shorter == NamesUpTo(n - 1)
         IN  shorter \cup {Append(w, c) : w \in {v \in shorter : Len(v) = n - 1}, c \in PathChars}

\* paths below a directory: a file name, or a directory name and a file name
RelPaths ==
    LET names == NamesUpTo(MaxRelLen) \ {<<>>}
    IN  {r \in names \cup {d \o <<"/">> \o f : d \in names, f \in names} : Len(r) <= MaxRelLen}

\* base directories: a relative and an absolute path of a directory named s
BaseDirs == {<<"s">>, <<"/", "s">>}

\* os.path.join(base_dir, key.lstrip("/\\")), as check_files builds the list
JoinBase(base_dir, rel) == base_dir \o <<"/">> \o rel

\* r is an ancestor directory of the file q
IsDirOf(r, q) == Len(q) > Len(r) /\ SubSeq(q, 1, Len(r) + 1) = r \o <<"/">>

RECURSIVE ListsUpTo(_, _)
ListsUpTo(S, n) ==
    IF n = 0 THEN {<<>>}
    ELSE LET shorter == ListsUpTo(S, n - 1)
         IN  shorter \cup {Append(l, x) : l \in {v \in shorter : Len(v) = n - 1}, x \in S}

\* file lists: distinct regular files that exist together below the base
FileLists ==
    {l \in ListsUpTo(RelPaths, MaxFiles) :
        /\ \A i, j \in 1..Len(l) : i # j => l[i] # l[j]
        /\ \A i, j \in 1..Len(l) : ~IsDirOf(l[i], l[j])}

\* the bytes of a file: every file holds content of its own
Content(file) == file

\* the least i >= from at which sub occurs in s (0: nowhere)
Find(s, sub, from) ==
    LET hits == {i \in from..(Len(s) - Len(sub) + 1) : SubSeq(s, i, i + Len(sub) - 1) = sub}
    IN  IF hits = {} THEN 0 ELSE CHOOSE i \in hits : \A j \in hits : i <= j

\* s.split(sep)[1]: the text between the first and the second occurrence of sep
split_1(s, sep) ==
    LET p1 == Find(s, sep, 1)
        start == p1 + Len(sep)
        p2 == Find(s, sep, start)
    IN  IF p2 = 0 THEN SubSeq(s, start, Len(s)) ELSE SubSeq(s, start, p2 - 1)

RECURSIVE lstrip_slash(_)
\* arcname.lstrip("/") in TarFile.gettarinfo
lstrip_slash(s) == IF s # <<>> /\ Head(s) = "/" THEN lstrip_slash(Tail(s)) ELSE s

NoArchive ==
    [pc |-> "none", base_dir |-> <<>>, files_paths |-> <<>>, i |-> 0, exists |-> {},
     tar |-> <<>>, nread |-> 0, wf |-> "none", rf |-> "none",
     exception_occurred |-> FALSE, exc |-> "none", gen |-> "none",
     x |-> "none", dest |-> {}]

\* lines 35-37 and 72-75: the pipe is open at both ends, the producer thread is
\* started, the consumer's first read is pending; every listed file exists
StartedArchive(base_dir, files_paths) ==
    [NoArchive EXCEPT !.pc = "exists", !.base_dir = base_dir, !.files_paths = files_paths,
                      !.i = 1, !.exists = 1..Len(files_paths), !.wf = "open",
                      !.rf = "open", !.gen = "reading"]

\* a slip: every exception of the writer sets the error flag
sets_exception_occurred_always(exc) == TRUE

\* writer(), lines 65-70: all but a broken pipe set exception_occurred
sets_exception_occurred(exc) == exc # "BrokenPipeError"

\* an exception leaves the two with-blocks of writer(): the write end is closed
\* and the handler runs
WriterRaise(exc) ==
    ar' = [ar EXCEPT !.pc = "return", !.wf = "closed", !.exc = exc,
                     !.exception_occurred = @ \/ sets_exception_occurred(exc)]

\* writer(), lines 44-45: the loop reaches the next listed file and asks
\* whether it exists
WriterExists ==
    /\ ar.pc = "exists"
    /\ ar' = IF ar.i > Len(ar.files_paths) THEN [ar EXCEPT !.pc = "close"]
             ELSE IF ar.i \in ar.exists THEN [ar EXCEPT !.pc = "add"]
             ELSE [ar EXCEPT !.i = @ + 1]
    /\ UNCHANGED except_ar

\* writer(), lines 46-48: tar.add stats the file, then writes the member into
\* the pipe; the write waits while the pipe is full and breaks once the read
\* end is closed
WriterAdd ==
    /\ ar.pc = "add"
    /\ LET file == ar.files_paths[ar.i]
           relative_path == split_1(file, ar.base_dir)
       IN  IF ar.i \notin ar.exists
           THEN WriterRaise(IF ar.rf = "closed" THEN "BrokenPipeError"
                            ELSE "FileNotFoundError")
           ELSE IF ar.rf = "closed" THEN WriterRaise("BrokenPipeError")
           ELSE /\ Len(ar.tar) - ar.nread < PipeCap
                /\ ar' = [ar EXCEPT !.i = @ + 1, !.pc = "exists",
                            !.tar = Append(@, [name |-> lstrip_slash(relative_path),
                                                data |-> Content(file)])]
    /\ UNCHANGED except_ar

\* writer(): the loop ends, the tar and the pipe's write end are closed
WriterClose ==
    /\ ar.pc = "close"
    /\ IF ar.rf = "closed" THEN WriterRaise("BrokenPipeError")
       ELSE ar' = [ar EXCEPT !.pc = "return", !.wf = "closed"]
    /\ UNCHANGED except_ar

\* writer() returns: the producer thread ends
WriterReturn ==
    /\ ar.pc = "return"
    /\ ar' = [ar EXCEPT !.pc = "ended"]
    /\ UNCHANGED except_ar

\* another process deletes a listed file while the producer is at work
DeleteFile ==
    /\ ar.pc \in {"exists", "add"}
    /\ \E k \in ar.exists : ar' = [ar EXCEPT !.exists = @ \ {k}]
    /\ UNCHANGED except_ar

\* a read that returns nothing whenever the pipe is empty
at_eof_when_empty(a) == a.nread = Len(a.tar)

\* rf.read(CHUNK_SIZE) on the blocking pipe returns nothing only at end of
\* file: the pipe is drained and its write end closed
at_eof(a) == a.nread = Len(a.tar) /\ a.wf = "closed"

\* lines 75-80: the consumer asks for the next chunk; rf.read returns a chunk,
\* or nothing at end of file; on an empty pipe still open for writing it blocks
ReadChunk ==
    /\ ar.gen = "reading"
    /\ IF at_eof(ar) THEN ar' = [ar EXCEPT !.gen = "ended", !.rf = "closed"]
       ELSE /\ ar.nread < Len(ar.tar)
            /\ ar' = [ar EXCEPT !.nread = @ + 1]
    /\ UNCHANGED except_ar

\* the consumer leaves its loop after a chunk: the generator stays suspended
\* at line 80
StopReading ==
    /\ ar.gen = "reading"
    /\ ar.nread >= 1
    /\ ar' = [ar EXCEPT !.gen = "stopped"]
    /\ UNCHANGED except_ar

\* the suspended generator is closed (aclose, or its finalizer once the
\* consumer dropped it): GeneratorExit at line 80, line 75 closes the read end
CloseGenerator ==
    /\ ar.gen = "stopped"
    /\ ar' = [ar EXCEPT !.gen = "closed", !.rf = "closed"]
    /\ UNCHANGED except_ar

RECURSIVE rstrip_slash(_)
\* targetpath.rstrip("/") in TarFile.extract
rstrip_slash(s) ==
    IF s # <<>> /\ s[Len(s)] = "/" THEN rstrip_slash(SubSeq(s, 1, Len(s) - 1)) ELSE s

\* one member written into the destination: a member whose target is the
\* destination itself or a directory made for an earlier member
\* (IsADirectoryError), or lies under an earlier member that is a file
\* (NotADirectoryError), ends the extraction; a file of the same name is
\* overwritten
ExtractMember(st, member) ==
    LET target == rstrip_slash(member.name)
    IN  IF ~st.ok THEN st
        ELSE IF \/ target = <<>>
                \/ \E x \in st.files : IsDirOf(target, x.name)
                \/ \E x \in st.files : IsDirOf(x.name, target)
             THEN [st EXCEPT !.ok = FALSE]
             ELSE [st EXCEPT !.files = {x \in @ : x.name # target}
                                         \cup {[name |-> target, data |-> member.data]}]

\* members 1..n extracted in order into an empty directory
RECURSIVE Extracted(_, _)
Extracted(tar, n) ==
    IF n = 0 THEN [files |-> {}, ok |-> TRUE]
    ELSE ExtractMember(Extracted(tar, n - 1), tar[n])

\* get_archive_chunks: tarfile.open and tar.extractall of the stream the
\* consumer received, into the emptied directory; an archive the producer
\* left unfinished opens if it holds a member (ReadError: empty file if not)
ExtractAll ==
    /\ ar.gen = "ended"
    /\ ar.x = "none"
    /\ LET st == Extracted(ar.tar, ar.nread)
       IN  IF ar.exc # "none" /\ ar.nread = 0
           THEN ar' = [ar EXCEPT !.x = "extract_error"]
           ELSE ar' = [ar EXCEPT !.x = IF st.ok THEN "extracted" ELSE "extract_error",
                                 !.dest = st.files]
    /\ UNCHANGED except_ar

\* ------------------------------------------------------ archive extractor
\* game names: one holds the digits 404
GameNames == {<<"g">>, <<"g", "4", "0", "4">>}

\* what the server, or the network, answers to GET /files/download_data
DownloadAnswers == {"200", "404", "500", "ConnectionError"}

\* the body of a 200 answer: a readable archive, bytes that are no archive, or
\* a stream that breaks off
Bodies == {"archive", "corrupt", "cut"}

OldFile(name) == [name |-> name, data |-> <<"o">>]
NewFile(name) == [name |-> name, data |-> <<"n">>]

\* files the destination can hold before the call
PreExisting == SUBSET {OldFile(<<"a">>), OldFile(<<"p">>)}

\* archives the server can deliver: empty, one member, or members that cannot
\* be extracted together
ServerArchives ==
    {<<>>, <<NewFile(<<"a">>)>>, <<NewFile(<<"a">>), NewFile(<<"a", "/", "b">>)>>}

\* str(e) of the HTTPError of Response.raise_for_status:
\* "<status> ... Error: <reason> for url: <host>/files/download_data?game_name=<name>"
HTTPErrorText(status, game_name) ==
    <<status[1], status[2], status[3], " ", "h", "/", "?">> \o game_name

\* "404" in str(e)
Has404(text) == Find(text, <<"4", "0", "4">>, 1) # 0

StatusDigits(answer) ==
    CASE answer = "404" -> <<"4", "0", "4">>
      [] answer = "500" -> <<"5", "0", "0">>
      [] OTHER -> <<"2", "0", "0">>

NoDownload ==
    [pc |-> "none", game_name |-> <<>>, delete_saves_folder |-> FALSE, pre |-> {},
     dest |-> {}, answer |-> "none", body |-> "none", archive |-> <<>>,
     temp |-> FALSE, extracted |-> FALSE, ret |-> "none"]

\* the except clauses of download_files, lines 217-226
DownloadFails(ret) == dl' = [dl EXCEPT !.pc = "done", !.ret = ret]

\* download_files, lines 199-208: makedirs, then the request through
\* _make_request, which raises for a missing host or token, a network error
\* or an error status
DownloadRequest ==
    /\ dl.pc = "request"
    /\ \E settings \in Settings :
         IF make_request_preamble(settings) # "request" THEN DownloadFails("None")
         ELSE \E answer \in DownloadAnswers, body \in Bodies :
                CASE answer = "ConnectionError" ->
                       dl' = [dl EXCEPT !.pc = "done", !.ret = "None", !.answer = answer]
                  [] answer = "200" ->
                       dl' = [dl EXCEPT !.pc = "replace", !.answer = answer, !.body = body]
                  [] OTHER ->
                       dl' = [dl EXCEPT !.pc = "done", !.answer = answer,
                                !.ret = IF Has404(HTTPErrorText(StatusDigits(answer),
                                                                dl.game_name))
                                        THEN "404" ELSE "None"]
    /\ UNCHANGED except_dl

\* download_files, lines 209-211
DownloadReplace ==
    /\ dl.pc = "replace"
    /\ dl' = [dl EXCEPT !.pc = "save",
                        !.dest = IF dl.delete_saves_folder THEN {} ELSE @]
    /\ UNCHANGED except_dl

\* get_archive_chunks, lines 84-91: the body is written to the temporary file
GetArchiveSave ==
    /\ dl.pc = "save"
    /\ dl' = IF dl.body = "cut"
             THEN [dl EXCEPT !.pc = "done", !.ret = "None", !.temp = TRUE]
             ELSE [dl EXCEPT !.pc = "open", !.temp = TRUE]
    /\ UNCHANGED except_dl

\* get_archive_chunks, lines 93-98: tarfile.open, then the destination is
\* removed and made again
GetArchiveOpen ==
    /\ dl.pc = "open"
    /\ dl' = IF dl.body = "corrupt" THEN [dl EXCEPT !.pc = "done", !.ret = "None"]
             ELSE [dl EXCEPT !.pc = "extract", !.dest = {}]
    /\ UNCHANGED except_dl

\* get_archive_chunks, line 100
GetArchiveExtract ==
    /\ dl.pc = "extract"
    /\ LET st == Extracted(dl.archive, Len(dl.archive))
       IN  dl' = IF st.ok THEN [dl EXCEPT !.pc = "remove", !.dest = st.files,
                                          !.extracted = TRUE]
                 ELSE [dl EXCEPT !.pc = "done", !.ret = "None", !.dest = st.files]
    /\ UNCHANGED except_dl

\* get_archive_chunks, line 102, and download_files, lines 214-215
GetArchiveRemove ==
    /\ dl.pc = "remove"
    /\ dl' = [dl EXCEPT !.pc = "done", !.temp = FALSE, !.ret = "200"]
    /\ UNCHANGED except_dl

\* ------------------------------------------------- watcher's binding set
\* how many times the game's row is edited
MaxEdits == 2

\* the row of one game (game_name, game_path, saves_path) is told apart by the
\* number of edits it has had; a copy of it is <<n>>, no copy is <<>>
NoUse == [kind |-> "none", used |-> <<>>, stored |-> 0]

NoBindings ==
    [pc |-> "none", stored |-> 0, games_data |-> <<>>, game_data |-> <<>>, use |-> NoUse]

\* sqls.update_game, called from the edit dialog
UpdateGame ==
    /\ wb.pc # "none"
    /\ wb.stored < MaxEdits
    /\ wb' = [wb EXCEPT !.stored = @ + 1]
    /\ UNCHANGED except_wb

\* _wait_for_any_process_start, lines 64-66: _check_any_process_from_list over
\* self.games_data as it stands
StartCheck ==
    /\ wb.pc = "check"
    /\ \E running \in BOOLEAN :
         LET use == [kind |-> "start", used |-> wb.games_data, stored |-> wb.stored]
         IN  IF running /\ wb.games_data # <<>>
             THEN wb' = [wb EXCEPT !.pc = "wait_exit", !.game_data = wb.games_data,
                                   !.use = use]
             ELSE wb' = [wb EXCEPT !.pc = "refresh", !.use = use]
    /\ UNCHANGED except_wb

\* _wait_for_any_process_start, lines 67-69: _get_all_processes, then sleep
Refresh ==
    /\ wb.pc = "refresh"
    /\ wb' = [wb EXCEPT !.pc = "check", !.games_data = <<wb.stored>>]
    /\ UNCHANGED except_wb

\* one round of _wait_for_process_exit: the name found at detection is looked
\* for, nothing is read from the store
ExitPoll ==
    /\ wb.pc = "wait_exit"
    /\ \E running \in BOOLEAN :
         wb' = [wb EXCEPT !.pc = IF running THEN "wait_exit" ELSE "sync"]
    /\ UNCHANGED except_wb

\* _monitor_processes, lines 118-119: sync_saves_action with the game_data
\* returned at detection
WatcherSync ==
    /\ wb.pc = "sync"
    /\ wb' = [wb EXCEPT !.pc = "check",
                        !.use = [kind |-> "sync", used |-> wb.game_data,
                                 stored |-> wb.stored]]
    /\ UNCHANGED except_wb

\* ------------------------------------------------- concurrent downloads
\* the threads that download: AsyncRunner workers, the Process Watcher
DownloadThreads == {"t1", "t2"}

\* temp_data/downloaded_saves.tar.gz holds the archive sent to one thread, or
\* is not there
NoFile == "no file"

\* a thread: where it is, whether the file it has open is still the one at the
\* path, what that file holds, what it extracted, the exception that ended it
NoThread == [pc |-> "idle", linked |-> FALSE, seen |-> "nothing", got |-> "nothing",
             exc |-> "none"]

NoDownloads == [temp |-> NoFile, th |-> [t \in DownloadThreads |-> NoThread]]

\* download_files, line 212: a thread that is not downloading calls
\* get_archive_chunks with the answer to its request
StartDownload(t) ==
    /\ cd.th[t].pc \in {"idle", "done"}
    /\ cd' = [cd EXCEPT !.th[t] = [NoThread EXCEPT !.pc = "save"]]
    /\ UNCHANGED except_cd

\* lines 89-91: the file is opened "wb" and the body written; a file that is
\* at the path is truncated and rewritten in place, under every reader of it
SaveTemp(t) ==
    /\ cd.th[t].pc = "save"
    /\ cd' = [temp |-> t,
              th |-> [u \in DownloadThreads |->
                        IF u = t THEN [cd.th[u] EXCEPT !.pc = "open"]
                        ELSE IF cd.th[u].linked THEN [cd.th[u] EXCEPT !.seen = t]
                        ELSE cd.th[u]]]
    /\ UNCHANGED except_cd

\* line 93: tarfile.open of the path
OpenTemp(t) ==
    /\ cd.th[t].pc = "open"
    /\ cd' = IF cd.temp = NoFile
             THEN [cd EXCEPT !.th[t].pc = "done", !.th[t].exc = "FileNotFoundError"]
             ELSE [cd EXCEPT !.th[t].pc = "extract", !.th[t].linked = TRUE,
                             !.th[t].seen = cd.temp]
    /\ UNCHANGED except_cd

\* lines 94-100: the members are read from the open file
ExtractTemp(t) ==
    /\ cd.th[t].pc = "extract"
    /\ cd' = [cd EXCEPT !.th[t].pc = "remove", !.th[t].got = cd.th[t].seen,
                        !.th[t].linked = FALSE, !.th[t].seen = "nothing"]
    /\ UNCHANGED except_cd

\* line 102: os.remove of the path; files open on it keep what they hold
RemoveTemp(t) ==
    /\ cd.th[t].pc = "remove"
    /\ cd' = IF cd.temp = NoFile
             THEN [cd EXCEPT !.th[t].pc = "done", !.th[t].exc = "FileNotFoundError"]
             ELSE [temp |-> NoFile,
                   th |-> [u \in DownloadThreads |->
                             IF u = t THEN [cd.th[u] EXCEPT !.pc = "done"]
                             ELSE [cd.th[u] EXCEPT !.linked = FALSE]]]
    /\ UNCHANGED except_cd

\* ------------------------------------------------------------- games table
\* the columns update_game can write
EditableColumns == {"game_name", "saves_path", "game_path", "image_path"}

\* the table as the harness finds it: ids 1 and 2, names a and b
TwoRows ==
    [id \in {1, 2} |->
       [game_name |-> IF id = 1 THEN "a" ELSE "b", saves_path |-> "p", game_path |-> "p",
        image_path |-> "p", last_sync_date |-> None]]

\* the arguments of a call: a value for a column, or "None"
UpdateArgs ==
    [game_name : {"None", "a", "b", "c"}, saves_path : {"None", "q"},
     game_path : {"None", "q"}, image_path : {"None", "q"}]

NoArgs == [game_name |-> "None", saves_path |-> "None", game_path |-> "None",
           image_path |-> "None"]

NoUpdate ==
    [pc |-> "none", store |-> TwoRows, before |-> TwoRows, game_id |-> 0, args |-> NoArgs,
     ret |-> "none"]

\* Game.game_name is unique: the flush of a row whose new name another row has
\* raises IntegrityError
violates_unique(store, game_id, game_name) ==
    /\ game_name # "None"
    /\ \E other \in DOMAIN store : other # game_id /\ store[other].game_name = game_name

\* the modules sqls.py imports by name
sqls_imports == {"datetime", "logging"}

\* the except clauses of update_game, tried in order: the first names
\* sqlite3.IntegrityError, and evaluating it looks the module up; a name that
\* is not bound raises NameError out of the whole try statement
update_game_except(exc) ==
    IF "sqlite3" \notin sqls_imports THEN "NameError" ELSE "False"

\* lines 112-114: the test of game_id
UpdateGameCall ==
    /\ ug.pc = "call"
    /\ \E game_id \in 0..3, args \in UpdateArgs :
         ug' = IF game_id <= 0
               THEN [ug EXCEPT !.pc = "done", !.game_id = game_id, !.args = args,
                               !.before = ug.store, !.ret = "False"]
               ELSE [ug EXCEPT !.pc = "query", !.game_id = game_id, !.args = args,
                               !.before = ug.store]
    /\ UNCHANGED except_ug

\* lines 117-139: the row is loaded and the attributes passed are set on it in
\* the session; the table is not written yet
UpdateGameQuery ==
    /\ ug.pc = "query"
    /\ ug' = IF ug.game_id \notin DOMAIN ug.store
             THEN [ug EXCEPT !.pc = "done", !.ret = "False"]
             ELSE IF ug.args = NoArgs THEN [ug EXCEPT !.pc = "done", !.ret = "True"]
             ELSE [ug EXCEPT !.pc = "commit"]
    /\ UNCHANGED except_ug

\* create_session, lines 43-51, and update_game, lines 141-152: commit flushes
\* one UPDATE of the changed columns; IntegrityError leaves the with block,
\* session.close() rolls the transaction back, and the except clauses of
\* update_game decide what the caller gets
UpdateGameCommit ==
    /\ ug.pc = "commit"
    /\ ug' = IF violates_unique(ug.store, ug.game_id, ug.args.game_name)
             THEN [ug EXCEPT !.pc = "done", !.ret = update_game_except("IntegrityError")]
             ELSE [ug EXCEPT !.pc = "done", !.ret = "True",
                             !.store[ug.game_id] =
                                 [c \in DOMAIN @ |->
                                    IF c \in EditableColumns /\ ug.args[c] # "None"
                                    THEN ug.args[c] ELSE @[c]]]
    /\ UNCHANGED except_ug

\* update_sync_time on another thread: the date of a row is written
SyncTimeWrite ==
    /\ ug.pc # "none"
    /\ \E game_id \in DOMAIN ug.store :
         /\ ug.store[game_id].last_sync_date = None
         /\ ug' = [ug EXCEPT !.store[game_id].last_sync_date = Date(MaxClock)]
    /\ UNCHANGED except_ug

\* ------------------------------------------------------------ Hasher, diff
\* the key hash_generator files a path under: entry.path.split(dir_name)[1]
\* with dir_name = base_dir.split("/")[-1]
hash_key(base_dir, path) == split_1(path, Basename(base_dir))

NoDiff ==
    [pc |-> "none", base_dir |-> <<>>, files |-> {}, files_data |-> <<>>,
     missing_on_server |-> {}, mismatched_hashes |-> {}, files_to_upload |-> {}]

\* hash_generator: files_data[key] is the file whose hash was stored last under
\* the key, in the order os.scandir happened to list the files
HashGenerator ==
    /\ hg.pc = "hash"
    /\ LET keys == {hash_key(hg.base_dir, f) : f \in hg.files}
       IN  \E files_data \in [keys -> hg.files] :
             /\ \A k \in keys : hash_key(hg.base_dir, files_data[k]) = k
             /\ hg' = [hg EXCEPT !.pc = "check", !.files_data = files_data]
    /\ UNCHANGED except_hg

\* the server's answer to /files/check_files: keys it lacks, keys whose hash
\* differs
DiffResponse ==
    /\ hg.pc = "check"
    /\ \E missing \in SUBSET DOMAIN hg.files_data :
       \E mismatched \in SUBSET (DOMAIN hg.files_data \ missing) :
         hg' = [hg EXCEPT !.pc = "build", !.missing_on_server = missing,
                          !.mismatched_hashes = mismatched]
    /\ UNCHANGED except_hg

\* check_files, line 143
BuildList ==
    /\ hg.pc = "build"
    /\ hg' = [hg EXCEPT !.pc = "done",
                        !.files_to_upload =
                            {JoinBase(hg.base_dir, lstrip_slash(f)) :
                               f \in hg.missing_on_server \cup hg.mismatched_hashes}]
    /\ UNCHANGED except_hg

\* ------------------------------------------------- client and its settings
\* the operations that go through _make_request and look no further into the
\* answer than its being one (test_token and delete_backup have their own
\* actions)
RequestOps ==
    {"check_files", "download_files", "delete_game", "update_game_data", "get_games_data",
     "get_backups_data", "restore_backup"}

\* what the server, or the network, answers to a request of _make_request
Answers == {"ok", "HTTPError", "ConnectionError"}

\* what the caller of op gets when exc is raised inside its try block: the
\* value of the except clause, or the exception get_games_data raises instead
OnException(op, exc) ==
    CASE op = "check_files" -> {"[]"}
      [] op = "get_backups_data" -> {"{}"}
      [] op = "download_files" -> IF exc = "HTTPError" THEN {"404", "None"} ELSE {"None"}
      [] op = "get_games_data" ->
           CASE exc \in {"ValueError_host", "ValueError_token", "MissingSchema"} ->
                  {"Exception: Invalid response format from server"}
             [] exc = "ConnectionError" -> {"Exception: Failed to connect to server"}
             [] OTHER -> {"Exception: Server error"}
      [] OTHER -> {"None"}

\* the operations with a return before _make_request, and what they return
EarlyReturn(op) ==
    CASE op = "check_files" -> {"[]"}            \* base_dir is not a folder
      [] op = "update_game_data" -> {"200"}      \* game_name == new_game_name
      [] OTHER -> {}

\* the three configuration conditions of a call
Condition(config_file, token) ==
    IF load_host(config_file) \notin Urls THEN "no_host"
    ELSE IF ~token THEN "no_token"
    ELSE "ok"

\* a call: the operation, what settings.json and the keyring held when it was
\* made, whether it returned before its request preamble, what it returned
NoCall == [op |-> "none", config_file |-> "host", token |-> TRUE, early |-> FALSE,
           ret |-> "none"]

NoClient ==
    [host |-> "", config_file |-> "no_host", token |-> FALSE, call |-> NoCall,
     override |-> FALSE, base_dir |-> "files", files |-> "none", req |-> "none",
     producer |-> FALSE, answer |-> "none", prev |-> NoCall]

\* the record of a call that has returned
Called(op, ret, req) ==
    [cl EXCEPT !.call = [op |-> op, config_file |-> cl.config_file, token |-> cl.token,
                         early |-> FALSE, ret |-> ret],
               !.prev = cl.call, !.req = req,
               !.override = FALSE, !.base_dir = "files", !.files = "none",
               !.producer = FALSE, !.answer = "none"]

\* an operation built on _make_request
ClientRequest(op) ==
    /\ \/ \E ret \in EarlyReturn(op) :
            cl' = [Called(op, ret, "none") EXCEPT !.call.early = TRUE]
       \/ LET pre == make_request_preamble([config_file |-> cl.config_file,
                                            token |-> cl.token])
              host == load_host(cl.config_file)
          IN  IF pre # "request"
              THEN \E ret \in OnException(op, pre) :
                     cl' = [Called(op, ret, "none") EXCEPT !.host = host]
              ELSE \E answer \in Answers :
                     \E ret \in IF answer = "ok" THEN {"ok"} ELSE OnException(op, answer) :
                       cl' = [Called(op, ret, IF answer = "ConnectionError" THEN "none"
                                              ELSE host) EXCEPT !.host = host]
    /\ UNCHANGED except_cl

\* answers to GET /manage/check_x_token: 200 with token_status true or false,
\* an error status, no answer
TokenAnswers == {"200_true", "200_false", "401", "ConnectionError"}

\* answers to DELETE /files/delete_backup: 200 with a JSON body, 204 without a
\* body, an error status, no answer
DeleteBackupAnswers == {"200_json", "204_empty", "500", "ConnectionError"}

\* Response.raise_for_status: the exception an answer raises in _make_request
raise_for_status(answer) ==
    CASE answer \in {"401", "500"} -> "HTTPError"
      [] answer = "ConnectionError" -> "ConnectionError"
      [] OTHER -> "none"

\* what an operation does with the response _make_request returned
after_request(op, answer) ==
    CASE op = "test_token" -> {"200"}           \* response.status_code in both branches
      [] op = "delete_backup" ->                \* response.json() comes first
           IF answer = "204_empty" THEN OnException(op, "JSONDecodeError") ELSE {"200"}
      [] OTHER -> {"ok"}

\* test_token and delete_backup: _make_request, then the response is read;
\* every state of the client the call can leave
Inspected(op, answers) ==
    LET pre == make_request_preamble([config_file |-> cl.config_file, token |-> cl.token])
        host == load_host(cl.config_file)
    IN  IF pre # "request"
        THEN {[Called(op, ret, "none") EXCEPT !.host = host] : ret \in OnException(op, pre)}
        ELSE UNION {LET exc == raise_for_status(answer)
                    IN  {[Called(op, ret, IF exc = "ConnectionError" THEN "none" ELSE host)
                            EXCEPT !.host = host, !.answer = answer] :
                           ret \in IF exc # "none" THEN OnException(op, exc)
                                   ELSE after_request(op, answer)} :
                    answer \in answers}

ClientTestToken ==
    /\ \E c \in Inspected("test_token", TokenAnswers) : cl' = c
    /\ UNCHANGED except_cl

ClientDeleteBackup ==
    /\ \E c \in Inspected("delete_backup", DeleteBackupAnswers) : cl' = c
    /\ UNCHANGED except_cl

\* AsyncRunner.finished is Signal(bool): the result reaches the slot as its
\* truth value
finished_emit(result) == result \notin {"None", "[]", "{}", "False"}

\* SettingsWindow.test_token.handle_signal: the status line it shows
handle_signal(status) == IF status = TRUE THEN "valid" ELSE "invalid"

UploadLists ==
    [none |-> [type |-> "none", val |-> <<>>],
     empty |-> [type |-> "list", val |-> <<>>],
     files |-> [type |-> "list", val |-> <<<<"/", "s", "/", "a">>>>]]

\* upload_files_streaming; the producer starts when the request body is sent
ClientUpload ==
    /\ \E base_dir \in {"missing", "files"}, files \in DOMAIN UploadLists :
       \E res \in upload_files_streaming(base_dir, UploadLists[files], cl.host, cl.token) :
         cl' = [Called("upload_files_streaming", res.ret,
                       IF res.req /\ res.ret # "None" THEN cl.host ELSE "none")
                  EXCEPT !.base_dir = base_dir, !.files = files, !.producer = res.req,
                         !.call.early = (base_dir = "missing" \/ files = "none")]
    /\ UNCHANGED except_cl

\* check_server_health(host_for_check)
ClientHealth ==
    /\ \E host_for_check \in {""} \cup Urls :
         LET target == IF Truthy(host_for_check) THEN host_for_check ELSE cl.host
         IN  IF target \notin Urls
             THEN cl' = [Called("check_server_health", "False", "none")
                           EXCEPT !.override = Truthy(host_for_check)]
             ELSE \E answer \in Answers :
                    cl' = [Called("check_server_health",
                                  IF answer = "ok" THEN "True" ELSE "False",
                                  IF answer = "ConnectionError" THEN "none" ELSE target)
                             EXCEPT !.override = Truthy(host_for_check)]
    /\ UNCHANGED except_cl

\* SettingsWindow.save_server_address_to_config: settings.json is rewritten,
\* no client object is told
SaveServerAddress ==
    /\ cl.config_file # "unreadable"
    /\ \E address \in {"no_host", "host", "host2"} : cl' = [cl EXCEPT !.config_file = address]
    /\ UNCHANGED except_cl

\* SettingsWindow.save_token
SaveToken ==
    /\ cl' = [cl EXCEPT !.token = TRUE]
    /\ UNCHANGED except_cl

\* ----------------------------------------------------------- specification
\* the metadata store holds the rows ids; every row was either never synced
\* or synced before the application started
InitStore(ids) ==
    /\ last_sync_date \in [ids -> {None, Date(0)}]
    /\ clock = 0
    /\ card = [g \in ids |-> last_sync_date[g] = None]
    /\ saves_dir \in [ids -> {"missing", "files"}]
    /\ run = [t \in Threads |-> IdleRun]
    /\ pw = [pc |-> "wait_start", game_id |-> 0, running_process |-> <<>>,
             polls |-> <<>>, logged |-> FALSE]

\* one registered game; the watcher thread and the manual sync button
Init == InitStore({1}) /\ mt = NoMatch /\ ar = NoArchive /\ dl = NoDownload /\ cl = NoClient
    /\ hg = NoDiff
    /\ wb = NoBindings
    /\ cd = NoDownloads
    /\ ug = NoUpdate

Next ==
    \/ \E t \in Threads : SyncLookup(t)
    \/ \E t \in Threads : CheckFiles(t)
    \/ \E t \in Threads : Upload(t)
    \/ \E t \in Threads : DownloadWipe(t)
    \/ \E t \in Threads : DownloadFiles(t)
    \/ \E t \in Threads : ReadNow(t)
    \/ \E t \in Threads : UpdateSyncTime(t)
    \/ \E t \in Workers, g \in Games : OnSync(t, g)
    \/ \E t \in Workers : RunnerEmit(t)
    \/ WaitStartPoll
    \/ WaitExitPoll
    \/ WatcherAfterSync

Spec == Init /\ [][Next]_vars

\* NGames registered games; the watcher thread alone
InitWatcher == InitStore(1..NGames) /\ mt = NoMatch /\ ar = NoArchive /\ dl = NoDownload /\ cl = NoClient
    /\ hg = NoDiff
    /\ wb = NoBindings
    /\ cd = NoDownloads
    /\ ug = NoUpdate

NextWatcher ==
    \/ SyncLookup(WatcherThread)
    \/ CheckFiles(WatcherThread)
    \/ Upload(WatcherThread)
    \/ ReadNow(WatcherThread)
    \/ UpdateSyncTime(WatcherThread)
    \/ WaitStartPoll
    \/ WaitExitPoll
    \/ WatcherAfterSync

SpecWatcher == InitWatcher /\ [][NextWatcher]_vars

\* the engine at rest, while a pure function is exercised
Quiet ==
    /\ last_sync_date = [g \in {1} |-> None]
    /\ clock = 0
    /\ card = [g \in {1} |-> TRUE]
    /\ saves_dir = [g \in {1} |-> "files"]
    /\ run = [t \in Threads |-> IdleRun]
    /\ pw = [pc |-> "wait_start", game_id |-> 0, running_process |-> <<>>,
             polls |-> <<>>, logged |-> FALSE]

InitMatch ==
    /\ Quiet
    /\ ar = NoArchive
    /\ dl = NoDownload
    /\ cl = NoClient
    /\ hg = NoDiff
    /\ wb = NoBindings
    /\ cd = NoDownloads
    /\ ug = NoUpdate
    /\ mt \in [bound : BoundNames, proc : ListedNames, found : {"unset"}]

SpecMatch == InitMatch /\ [][CheckProcess]_vars

InitArchive ==
    /\ Quiet
    /\ mt = NoMatch
    /\ dl = NoDownload
    /\ cl = NoClient
    /\ hg = NoDiff
    /\ wb = NoBindings
    /\ cd = NoDownloads
    /\ ug = NoUpdate
    /\ \E base_dir \in BaseDirs, rels \in FileLists :
         ar = StartedArchive(base_dir, [k \in 1..Len(rels) |-> JoinBase(base_dir, rels[k])])

NextArchive ==
    \/ WriterExists
    \/ WriterAdd
    \/ WriterClose
    \/ WriterReturn
    \/ DeleteFile
    \/ ReadChunk
    \/ StopReading
    \/ CloseGenerator
    \/ ExtractAll

SpecArchive == InitArchive /\ [][NextArchive]_vars

\* one call of download_files(game_name, path_to_saves, delete_saves_folder)
InitDownload ==
    /\ Quiet
    /\ mt = NoMatch
    /\ ar = NoArchive
    /\ cl = NoClient
    /\ hg = NoDiff
    /\ wb = NoBindings
    /\ cd = NoDownloads
    /\ ug = NoUpdate
    /\ \E game_name \in GameNames, flag \in BOOLEAN, pre \in PreExisting,
          archive \in ServerArchives :
         dl = [NoDownload EXCEPT !.pc = "request", !.game_name = game_name,
                 !.delete_saves_folder = flag, !.pre = pre, !.dest = pre,
                 !.archive = archive]

NextDownload ==
    \/ DownloadRequest
    \/ DownloadReplace
    \/ GetArchiveSave
    \/ GetArchiveOpen
    \/ GetArchiveExtract
    \/ GetArchiveRemove

SpecDownload == InitDownload /\ [][NextDownload]_vars

\* APIClient(): self.host is what load_host finds at construction
InitClient ==
    /\ Quiet
    /\ mt = NoMatch
    /\ ar = NoArchive
    /\ dl = NoDownload
    /\ \E config_file \in {"host", "host2", "no_host", "absent", "unreadable"},
          token \in BOOLEAN :
         cl = [NoClient EXCEPT !.host = load_host(config_file),
                               !.config_file = config_file, !.token = token]
    /\ hg = NoDiff
    /\ wb = NoBindings
    /\ cd = NoDownloads
    /\ ug = NoUpdate

NextClient ==
    \/ \E op \in RequestOps : ClientRequest(op)
    \/ ClientTestToken
    \/ ClientDeleteBackup
    \/ ClientUpload
    \/ ClientHealth
    \/ SaveServerAddress
    \/ SaveToken

SpecClient == InitClient /\ [][NextClient]_vars

\* check_files(base_dir, ...) on a folder holding the files of one file list
InitDiff ==
    /\ Quiet
    /\ mt = NoMatch
    /\ ar = NoArchive
    /\ dl = NoDownload
    /\ cl = NoClient
    /\ wb = NoBindings
    /\ cd = NoDownloads
    /\ ug = NoUpdate
    /\ \E base_dir \in BaseDirs, rels \in FileLists :
         hg = [NoDiff EXCEPT !.pc = "hash", !.base_dir = base_dir,
                 !.files = {JoinBase(base_dir, rels[k]) : k \in 1..Len(rels)}]

NextDiff ==
    \/ HashGenerator
    \/ DiffResponse
    \/ BuildList

SpecDiff == InitDiff /\ [][NextDiff]_vars

\* ProcessWatcher(): games_data is an empty dict; the store holds the row as
\* first written
InitBindings ==
    /\ Quiet
    /\ mt = NoMatch
    /\ ar = NoArchive
    /\ dl = NoDownload
    /\ cl = NoClient
    /\ hg = NoDiff
    /\ wb = [NoBindings EXCEPT !.pc = "check"]
    /\ cd = NoDownloads
    /\ ug = NoUpdate

NextBindings ==
    \/ UpdateGame
    \/ StartCheck
    \/ Refresh
    \/ ExitPoll
    \/ WatcherSync

SpecBindings == InitBindings /\ [][NextBindings]_vars

\* two threads that download, each the archive of its own game; a temporary
\* file may be left from an earlier failed call
InitDownloads ==
    /\ Quiet
    /\ mt = NoMatch
    /\ ar = NoArchive
    /\ dl = NoDownload
    /\ cl = NoClient
    /\ hg = NoDiff
    /\ wb = NoBindings
    /\ \E left \in {NoFile, "left"} : cd = [NoDownloads EXCEPT !.temp = left]
    /\ ug = NoUpdate

NextDownloads ==
    \/ \E t \in DownloadThreads : StartDownload(t)
    \/ \E t \in DownloadThreads : SaveTemp(t)
    \/ \E t \in DownloadThreads : OpenTemp(t)
    \/ \E t \in DownloadThreads : ExtractTemp(t)
    \/ \E t \in DownloadThreads : RemoveTemp(t)

SpecDownloads == InitDownloads /\ [][NextDownloads]_vars

\* the games table with two rows; update_game is about to be called
InitUpdate ==
    /\ Quiet
    /\ mt = NoMatch
    /\ ar = NoArchive
    /\ dl = NoDownload
    /\ cl = NoClient
    /\ hg = NoDiff
    /\ wb = NoBindings
    /\ cd = NoDownloads
    /\ ug = [NoUpdate EXCEPT !.pc = "call"]

NextUpdate ==
    \/ UpdateGameCall
    \/ UpdateGameQuery
    \/ UpdateGameCommit
    \/ SyncTimeWrite

SpecUpdate == InitUpdate /\ [][NextUpdate]_vars

\* files a, aa, ... directly below the base directory /s
PlainFiles(n) == [k \in 1..n |-> JoinBase(<<"/", "s">>, [j \in 1..k |-> "a"])]

\* one run of the producer and its consumer over plainly named files
InitProducer ==
    /\ Quiet
    /\ mt = NoMatch
    /\ dl = NoDownload
    /\ cl = NoClient
    /\ hg = NoDiff
    /\ wb = NoBindings
    /\ cd = NoDownloads
    /\ ug = NoUpdate
    /\ \E n \in 0..MaxFiles : ar = StartedArchive(<<"/", "s">>, PlainFiles(n))

\* the producer thread is scheduled as long as it can take a step; a generator
\* the consumer has left is closed by aclose or by its finalizer
SpecProducer ==
    /\ InitProducer
    /\ [][NextArchive]_vars
    /\ WF_vars(WriterExists)
    /\ WF_vars(WriterAdd)
    /\ WF_vars(WriterClose)
    /\ WF_vars(WriterReturn)
    /\ WF_vars(CloseGenerator)

\* the consumer pulls chunks until the sequence ends
NextPull ==
    \/ WriterExists
    \/ WriterAdd
    \/ WriterClose
    \/ WriterReturn
    \/ DeleteFile
    \/ ReadChunk

\* the producer thread is scheduled as long as it can take a step, and the
\* consumer asks for the next chunk as long as the sequence has not ended
SpecPull ==
    /\ InitProducer
    /\ [][NextPull]_vars
    /\ WF_vars(WriterExists)
    /\ WF_vars(WriterAdd)
    /\ WF_vars(WriterClose)
    /\ WF_vars(WriterReturn)
    /\ WF_vars(ReadChunk)

\* ------------------------------------------------------------------ claims
\* C1: in sync_saves_action and download_saves_action the game's last_sync_date
\* is written (update_sync_time) only after the transfer of that invocation
\* came back with status 200; a failed transfer leaves it as it was.
C1_StampOnlyAfterSuccess ==
    \A t \in Threads : run[t].stamped => run[t].status = "200"

\* C2: when /files/check_files answers 307, sync_saves_action takes the
\* download path and issues no upload request.
C2_RedirectTakesDownload ==
    \A t \in Threads :
        run[t].diff = "redirect" => run[t].entry = "download" /\ "upload" \notin run[t].reqs

\* C3: when the diff step fails, the invocation issues no upload and no download
\* request and does not modify last_sync_date.
C3_DiffFailureEndsSync ==
    \A t \in Threads : run[t].diff = "failed" => run[t].reqs = {} /\ ~run[t].stamped

\* C4: for a game whose last_sync_date is null, sync_saves_action on its own
\* (no choice made: the watcher's exit-triggered sync, or the plain button)
\* issues no transfer and ends by raising to its caller an exception that no
\* invocation on a synced game raises; a transfer request of an invocation that
\* found the date null is issued only after an explicit choice between
\* download and upload.
C4_FirstSyncNeedsChoice ==
    \A t \in Threads :
        /\ (run[t].pc # "idle" /\ run[t].first /\ run[t].choice = "none") =>
              /\ run[t].reqs = {}
              /\ run[t].pc \in {"lookup", "done"}
              /\ run[t].pc = "done" => run[t].outcome = "AttributeError"
        /\ (run[t].first /\ run[t].reqs # {}) => run[t].choice \in {"download", "upload"}
        /\ run[t].outcome = "AttributeError" => run[t].first

\* C4 witness: the watcher's exit-triggered sync of a never-synced game has
\* ended by raising, with no request issued.
C4_Witness ==
    /\ run[WatcherThread].pc = "done"
    /\ run[WatcherThread].first
    /\ run[WatcherThread].choice = "none"
    /\ run[WatcherThread].outcome = "AttributeError"
    /\ run[WatcherThread].reqs = {}

\* C5: from a null last_sync_date, the first sync the user chose ("upload
\* local" or "download remote"), when no transfer of it failed, ends with a
\* non-null last_sync_date, and after "download remote" the saves directory
\* holds the archive's entries.
C5_FirstSyncCompletes ==
    \A t \in Threads :
        (/\ run[t].pc = "done"
         /\ run[t].first
         /\ run[t].choice \in {"download", "upload"}
         /\ run[t].status \notin {"500", "404", "None"}) =>
            /\ last_sync_date[run[t].game] # None
            /\ run[t].choice = "download" => saves_dir[run[t].game] = "files"

\* C6: last_sync_date of a game, once non-null, never decreases, whatever the
\* interleaving of the threads that sync the game (the clock never goes back).
C6_SyncDateMonotone ==
    [][\A g \in Games :
          last_sync_date[g] # None =>
              /\ last_sync_date'[g] # None
              /\ last_sync_date'[g][1] >= last_sync_date[g][1]]_vars

\* C7: the watcher loop survives a failing iteration: after an error was
\* logged the watcher is scanning again, it has not ended.
C7_WatcherSurvives == pw.logged => pw.pc = "wait_start"

\* C8: every sync the watcher invokes follows a poll that saw the bound process
\* running and a later poll that saw it gone; each such pair invokes exactly
\* one sync, for the game that was detected, and when the sync is over the
\* watcher waits for a start again.
C8_OneSyncPerStartExit ==
    [][/\ (run[WatcherThread].pc = "idle" /\ run'[WatcherThread].pc # "idle") =>
            /\ pw'.polls = <<"running", "gone">>
            /\ run'[WatcherThread].game = pw.game_id
            /\ \A t \in Workers : run'[t] = run[t]
       /\ (pw.pc = "wait_exit" /\ pw'.pc # "wait_exit") =>
            /\ run[WatcherThread].pc = "idle"
            /\ run'[WatcherThread].pc = "lookup"
       /\ (pw.pc = "syncing" /\ pw'.pc # "syncing") => pw'.pc = "wait_start"]_vars

C10_ArchiveRoundTrip ==
    LET relative(file) == SubSeq(file, Len(ar.base_dir) + 2, Len(file))
    IN  (ar.x \in {"extracted", "extract_error"} /\ ar.exists = 1..Len(ar.files_paths)) =>
            /\ ar.x = "extracted"
            /\ ar.dest = {[name |-> relative(ar.files_paths[k]),
                           data |-> Content(ar.files_paths[k])] :
                             k \in 1..Len(ar.files_paths)}

\* C11: a listed file that is gone when the producer reaches it, also one
\* deleted between the producer's existence check and tar.add, is skipped: the
\* producer ends without an error and every listed file that still exists is
\* in the archive (unless the consumer closed the pipe first).
C11_MissingFileSkipped ==
    (ar.pc \in {"return", "ended"} /\ ar.exc # "BrokenPipeError") =>
        /\ ar.exc = "none"
        /\ \A k \in ar.exists :
             \E m \in 1..Len(ar.tar) : ar.tar[m].data = Content(ar.files_paths[k])

\* C12: when a run of create_archive_chunk_generator is over (the generator is
\* exhausted or closed), the producer thread has ended and both ends of the
\* pipe are closed.
C12_RunEndsClean ==
    ar.gen \in {"ended", "closed"} =>
        /\ ar.pc = "ended"
        /\ ar.wf = "closed"
        /\ ar.rf = "closed"

C14_ReplaceOnlyWhenAsked ==
    dl.ret = "200" =>
        IF dl.delete_saves_folder
        THEN dl.dest = Extracted(dl.archive, Len(dl.archive)).files
        ELSE \A f \in dl.pre :
                (\A m \in 1..Len(dl.archive) : dl.archive[m].name # f.name) => f \in dl.dest

\* C15: when get_archive_chunks has finished, by returning or by raising, the
\* temporary archive file does not exist.
C15_TempFileRemoved ==
    dl.pc = "done" => ~dl.temp

\* C18: download_files returns 404 exactly when the server answered 404, 200
\* exactly when the archive was downloaded and extracted, and None otherwise.
C18_DownloadOutcome ==
    dl.pc = "done" =>
        /\ dl.ret = "404" <=> dl.answer = "404"
        /\ dl.ret = "200" <=> dl.extracted
        /\ dl.ret \in {"404", "200", "None"}

\* C16: a call that reaches its request while no host is configured, or while
\* no token is stored, issues no request and fails, and the same operation
\* called under the other of the two conditions gave its caller a different
\* outcome. (The health probe carries no token and is held to the host
\* condition only.)
C16_ConfigErrorsDistinct ==
    LET cond(call) == Condition(call.config_file, call.token)
    IN  (/\ cl.call.op # "none"
         /\ ~cl.call.early
         /\ ~cl.override
         /\ cond(cl.call) # "ok"
         /\ cl.call.op = "check_server_health" => cond(cl.call) = "no_host") =>
            /\ cl.req = "none"
            /\ cl.call.ret \notin {"ok", "200", "True"}
            /\ (/\ cl.prev.op = cl.call.op
                /\ ~cl.prev.early
                /\ cond(cl.prev) \notin {"ok", cond(cl.call)})
                  => cl.prev.ret # cl.call.ret

\* C17: a request sent by a call without a host override goes to the host
\* settings.json held when the call was made.
C17_RequestGoesToPersistedHost ==
    (cl.req # "none" /\ ~cl.override) => cl.req = load_host(cl.call.config_file)

\* C19: upload_files_streaming of an existing folder, with a token stored and
\* a host held, returns 200 for a null or an empty file list, starts no
\* producer and sends no request; with files it returns the status of the
\* server's answer.
C19_EmptyUploadIsNoOp ==
    (/\ cl.call.op = "upload_files_streaming"
     /\ cl.base_dir = "files"
     /\ cl.call.token
     /\ cl.host \in Urls) =>
        IF cl.files \in {"none", "empty"}
        THEN cl.call.ret = "200" /\ ~cl.producer /\ cl.req = "none"
        ELSE cl.req # "none" => cl.call.ret \in UploadStatuses \ {"None"}

\* C20: the files handed to the upload are, for every key the server reported
\* missing or mismatched, the local file whose hash was sent under that key, and
\* no other.
C20_UploadListIsDiff ==
    hg.pc = "done" =>
        hg.files_to_upload =
            {hg.files_data[p] : p \in hg.missing_on_server \cup hg.mismatched_hashes}

\* C21: the map hash_generator returns holds exactly one entry per file below
\* the base directory, its key the separator followed by the file's path
\* relative to the base directory, its value the digest of that file.
C21_OneEntryPerFile ==
    hg.pc \in {"check", "build", "done"} =>
        LET relative(f) == SubSeq(f, Len(hg.base_dir) + 1, Len(f))
        IN  /\ DOMAIN hg.files_data = {relative(f) : f \in hg.files}
            /\ \A f \in hg.files : hg.files_data[relative(f)] = f

\* C22: no two threads are at the same time inside the upload or the download
\* of the same game.
C22_OneSyncPerGame ==
    \A t1, t2 \in Threads :
        (/\ t1 # t2
         /\ run[t1].pc \in {"upload", "wipe", "download"}
         /\ run[t2].pc \in {"upload", "wipe", "download"}) => run[t1].game # run[t2].game

\* C23: what test_token returns is true for a 200 answer with token_status
\* true and false for every other answer, and the settings window shows
\* "valid" for exactly those calls.
C23_TokenVerdict ==
    (cl.call.op = "test_token" /\ cl.answer # "none") =>
        /\ finished_emit(cl.call.ret) <=> cl.answer = "200_true"
        /\ handle_signal(finished_emit(cl.call.ret)) = "valid" <=> cl.answer = "200_true"

\* C24: delete_backup returns 200 for a 200 answer, 204 for a 204 answer, and
\* None for nothing but a failed request.
C24_DeleteBackupStatus ==
    (cl.call.op = "delete_backup" /\ cl.answer # "none") =>
        /\ cl.answer = "200_json" => cl.call.ret = "200"
        /\ cl.answer = "204_empty" => cl.call.ret = "204"
        /\ cl.call.ret = "None" => cl.answer \in {"500", "ConnectionError"}

C26_BindingsAreCurrent ==
    (wb.use.kind # "none" /\ wb.use.used # <<>>) => wb.use.used = <<wb.use.stored>>

\* C27: the files of a game's saves directory are removed only by a download
\* whose request the server has answered with an archive.
C27_WipeOnlyAfterDelivery ==
    [][\A g \in Games :
         (saves_dir[g] = "files" /\ saves_dir'[g] = "empty") =>
             \E t \in Threads : /\ run[t].game = g
                                /\ "download" \in run[t].reqs
                                /\ run[t].status = "200"]_vars

\* C28: when the producer thread has failed with an error other than a broken
\* pipe, the chunk sequence does not end as one of a finished archive does and
\* what was delivered is not extracted as an archive.
C28_ProducerFailureSeen ==
    ar.exception_occurred => (ar.gen # "ended" /\ ar.x # "extracted")

\* C29: a download thread extracts the archive sent to it and no other, and
\* does not fail on the temporary file.
C29_OwnArchiveExtracted ==
    \A t \in DownloadThreads :
        /\ cd.th[t].got \in {"nothing", t}
        /\ cd.th[t].exc = "none"

\* C30: update_game returns True or False; a column of a row differs from what
\* it held at the call only in the row of the id given, for a column passed,
\* which then holds the value passed; last_sync_date is written by
\* update_sync_time alone; a name another row has makes the call return False
\* and leaves names and paths of every row as they were.
C30_UpdateGameFrame ==
    /\ \A g \in DOMAIN ug.store :
         /\ ug.store[g].last_sync_date \in {None, Date(MaxClock)}
         /\ \A c \in EditableColumns :
              ug.store[g][c] # ug.before[g][c] =>
                  /\ g = ug.game_id
                  /\ ug.args[c] # "None"
                  /\ ug.store[g][c] = ug.args[c]
                  /\ ug.ret = "True"
         /\ \A h \in DOMAIN ug.store : g # h => ug.store[g].game_name # ug.store[h].game_name
    /\ ug.pc = "done" =>
         /\ ug.ret \in {"True", "False"}
         /\ (\E h \in DOMAIN ug.before :
               h # ug.game_id /\ ug.before[h].game_name = ug.args.game_name)
              => ug.ret = "False"
         /\ (ug.ret = "True" /\ ug.game_id \in DOMAIN ug.store) =>
              \A c \in EditableColumns :
                  ug.args[c] # "None" => ug.store[ug.game_id][c] = ug.args[c]

====
